---- MODULE Spec2Model ----
(***************************************************************************)
(* Model of src/utils.rs: the bit-flag helpers, the two character-class    *)
(* scanners (fast_tokenizer, fast_tokenizer_no_regex), their public entry  *)
(* points and the fuzzy signature built on top of them.                    *)
(*                                                                         *)
(* A pattern (&str) is the sequence of the bytes of its UTF-8 encoding:     *)
(* the scanners work on byte offsets (char_indices, str::len, byte-range    *)
(* slices).  A char is its Unicode code point.                              *)
(***************************************************************************)
EXTENDS Integers, Sequences, FiniteSets, TLC

(***************************************************************************)
(* Characters that occur in the source and make up the input alphabet.     *)
(***************************************************************************)
Percent == 37
Star == 42
Dash == 45
Dot == 46
Underscore == 95
LetterA == 97
LetterTesh == 428

(***************************************************************************)
(* Bounds of the model: the length of the short patterns, all of which are  *)
(* tried; the length of what follows the repeated word of a long pattern;   *)
(* by how many words a long pattern may exceed TOKENS_BUFFER_SIZE - 1; the  *)
(* number of hash values; the number of bit positions the words use.        *)
(***************************************************************************)
MaxLen == 5
MaxTailLen == 2
CapSlack == 1
HashRange == 31
WordBits == 3

TOKENS_BUFFER_SIZE == 200

(***************************************************************************)
(* char::is_alphanumeric (Alphabetic or Numeric) on the code points below   *)
(* U+0250: the ASCII digits and letters, the letters, superscript digits    *)
(* and fractions of Latin-1, and Latin Extended-A and Extended-B.           *)
(***************************************************************************)
is_alphanumeric(ch) ==
    \/ ch \in 48..57
    \/ ch \in 65..90
    \/ ch \in 97..122
    \/ ch \in {170, 178, 179, 181, 185, 186, 188, 189, 190}
    \/ ch \in 192..214
    \/ ch \in 216..246
    \/ ch \in 248..591

is_allowed_filter(ch) == is_alphanumeric(ch) \/ ch = Percent

is_allowed_hostname(ch) == is_allowed_filter(ch) \/ ch = Underscore \/ ch = Dash

(* The two predicates the scanners are called with (&Fn(char) -> bool). *)
is_allowed_code(alphabet, ch) ==
    IF alphabet = "hostname" THEN is_allowed_hostname(ch) ELSE is_allowed_filter(ch)

(***************************************************************************)
(* UTF-8: char::len_utf8 and the bytes of a char and of a string.           *)
(***************************************************************************)
len_utf8(ch) ==
    IF ch < 128 THEN 1 ELSE IF ch < 2048 THEN 2 ELSE IF ch < 65536 THEN 3 ELSE 4

encode_utf8(ch) ==
    IF ch < 128 THEN <<ch>>
    ELSE IF ch < 2048 THEN <<192 + (ch \div 64), 128 + (ch % 64)>>
    ELSE IF ch < 65536
         THEN <<224 + (ch \div 4096), 128 + ((ch \div 64) % 64), 128 + (ch % 64)>>
         ELSE <<240 + (ch \div 262144), 128 + ((ch \div 4096) % 64),
                128 + ((ch \div 64) % 64), 128 + (ch % 64)>>

RECURSIVE as_bytes(_)
as_bytes(pattern) ==
    IF pattern = <<>> THEN <<>>
    ELSE encode_utf8(Head(pattern)) \o as_bytes(Tail(pattern))

(***************************************************************************)
(* fast_hash: the xx hash32 of the bytes of a string, computed by an       *)
(* external crate.  It is modelled as a deterministic function of the      *)
(* bytes into a small range, so that distinct strings may collide: the     *)
(* length plus the bytes weighted by their place, modulo HashRange.        *)
(***************************************************************************)
RECURSIVE hash_bytes(_, _, _)
hash_bytes(bytes, from, to) ==
    IF from > to THEN 0
    ELSE IF from = to THEN (from * bytes[from]) % HashRange
    ELSE LET mid == (from + to) \div 2
         IN  (hash_bytes(bytes, from, mid) + hash_bytes(bytes, mid + 1, to)) % HashRange

fast_hash(bytes) == (Len(bytes) + hash_bytes(bytes, 1, Len(bytes))) % HashRange

(***************************************************************************)
(* str::char_indices: the char that starts at byte offset i (0-based) of    *)
(* a valid UTF-8 string.                                                    *)
(***************************************************************************)
char_at(pattern, i) ==
    LET b0 == pattern[i + 1] IN
    IF b0 < 128 THEN b0
    ELSE IF b0 < 224 THEN (b0 - 192) * 64 + (pattern[i + 2] - 128)
    ELSE IF b0 < 240
         THEN (b0 - 224) * 4096 + (pattern[i + 2] - 128) * 64 + (pattern[i + 3] - 128)
         ELSE (b0 - 240) * 262144 + (pattern[i + 2] - 128) * 4096
              + (pattern[i + 3] - 128) * 64 + (pattern[i + 4] - 128)

(* &pattern[from..to], a byte-range slice. *)
slice(pattern, from, to) == SubSeq(pattern, from + 1, to)

(***************************************************************************)
(* The local state of a scanner.  Option<char> is <<>> (None) or <<c>>.     *)
(* chars is the byte offset the char_indices iterator stands at, exited     *)
(* tells that the loop was left, written records the byte range hashed by   *)
(* each buffer write, and panicked an out-of-bounds write, which aborts     *)
(* the call.                                                                *)
(***************************************************************************)
scanner_locals ==
    [tokens_buffer       |-> SubSeq([j \in 1..TOKENS_BUFFER_SIZE |-> 0],
                                    1, TOKENS_BUFFER_SIZE),
     chars               |-> 0,
     exited              |-> FALSE,
     tokens_buffer_index |-> 0,
     inside              |-> FALSE,
     start               |-> 0,
     preceding_ch        |-> <<>>,
     written             |-> <<>>,
     panicked            |-> FALSE]

(* Variant: the break comes one token late. *)
buffer_is_full_late(tokens_buffer_index) == tokens_buffer_index > TOKENS_BUFFER_SIZE

(* if tokens_buffer_index >= TOKENS_BUFFER_SIZE { break; } *)
buffer_is_full(tokens_buffer_index) == tokens_buffer_index >= TOKENS_BUFFER_SIZE

(***************************************************************************)
(* tokens_buffer[tokens_buffer_index] = fast_hash(&pattern[from..to]);     *)
(* tokens_buffer_index += 1;                                                *)
(* Indexing the array at or beyond its length panics.                       *)
(***************************************************************************)
push_token(s, pattern, from, to) ==
    IF s.tokens_buffer_index >= TOKENS_BUFFER_SIZE
    THEN [s EXCEPT !.panicked = TRUE]
    ELSE [s EXCEPT !.tokens_buffer[s.tokens_buffer_index + 1] =
                        fast_hash(slice(pattern, from, to)),
                   !.tokens_buffer_index = @ + 1,
                   !.written = Append(@, <<from, to>>)]

(***************************************************************************)
(* What a call hands back: tokens_buffer[0..tokens_buffer_index].to_vec(),  *)
(* together with what was observed of the scan: the byte ranges written,    *)
(* whether the call panicked, and the locals at the exit of the loop.       *)
(***************************************************************************)
returned(s, at_exit) ==
    [tokens      |-> IF s.panicked THEN <<>>
                     ELSE SubSeq(s.tokens_buffer, 1, s.tokens_buffer_index),
     written     |-> s.written,
     panicked    |-> s.panicked,
     exit_inside |-> at_exit.inside,
     exit_index  |-> at_exit.tokens_buffer_index]

(***************************************************************************)
(* fast_tokenizer_no_regex.                                                 *)
(***************************************************************************)
(* Variant: the char that closes the token is not looked at. *)
keep_closed_token_any_next(sip_first_token, start, i, c, preceding_ch) ==
    /\ (~sip_first_token \/ start # 0)
    /\ i - start > 1
    /\ (preceding_ch = <<>> \/ preceding_ch[1] # Star)

(* The condition under which a token closed by the char c at i is kept. *)
keep_closed_token(sip_first_token, start, i, c, preceding_ch) ==
    /\ (~sip_first_token \/ start # 0)
    /\ i - start > 1
    /\ c # Star
    /\ (preceding_ch = <<>> \/ preceding_ch[1] # Star)

(* Variant: the last token is kept whatever its length. *)
keep_last_token_any_length(inside, len, start, preceding_ch, skip_last_token) ==
    /\ inside
    /\ (preceding_ch = <<>> \/ preceding_ch[1] # Star)
    /\ ~skip_last_token

(* Variant: skip_last_token is not looked at. *)
keep_last_token_never_skipped(inside, len, start, preceding_ch, skip_last_token) ==
    /\ inside
    /\ len - start > 1
    /\ (preceding_ch = <<>> \/ preceding_ch[1] # Star)

(* The condition under which the token open at the end of the loop is kept. *)
keep_last_token(inside, len, start, preceding_ch, skip_last_token) ==
    /\ inside
    /\ len - start > 1
    /\ (preceding_ch = <<>> \/ preceding_ch[1] # Star)
    /\ ~skip_last_token

(* The body of the loop, for the char c at byte offset i. *)
no_regex_step(pattern, alphabet, sip_first_token, i, c, s) ==
    IF is_allowed_code(alphabet, c)
    THEN IF ~s.inside THEN [s EXCEPT !.inside = TRUE, !.start = i] ELSE s
    ELSE IF s.inside
         THEN LET closed == [s EXCEPT !.inside = FALSE]
                  pushed == IF keep_closed_token(sip_first_token, s.start, i, c,
                                                 s.preceding_ch)
                            THEN push_token(closed, pattern, s.start, i)
                            ELSE closed
              IN  [pushed EXCEPT !.preceding_ch = <<c>>]
         ELSE [s EXCEPT !.preceding_ch = <<c>>]

(* One turn of the while loop: chars.next(), the break, the body. *)
no_regex_turn(pattern, alphabet, sip_first_token, s) ==
    IF s.exited \/ s.panicked THEN s
    ELSE IF s.chars >= Len(pattern) THEN [s EXCEPT !.exited = TRUE]
    ELSE IF buffer_is_full(s.tokens_buffer_index) THEN [s EXCEPT !.exited = TRUE]
    ELSE LET i == s.chars
             c == char_at(pattern, i)
         IN  no_regex_step(pattern, alphabet, sip_first_token, i, c,
                           [s EXCEPT !.chars = i + len_utf8(c)])

(***************************************************************************)
(* The while loop, as at most turns turns: the first half of them, and the  *)
(* other half unless the loop was left meanwhile.                           *)
(***************************************************************************)
RECURSIVE no_regex_loop(_, _, _, _, _)
no_regex_loop(pattern, alphabet, sip_first_token, turns, s) ==
    IF turns <= 1 THEN no_regex_turn(pattern, alphabet, sip_first_token, s)
    ELSE LET half == no_regex_loop(pattern, alphabet, sip_first_token,
                                   turns \div 2, s)
         IN  IF half.exited \/ half.panicked THEN half
             ELSE no_regex_loop(pattern, alphabet, sip_first_token,
                                turns - (turns \div 2), half)

no_regex_end(pattern, skip_last_token, s) ==
    IF ~s.panicked /\ keep_last_token(s.inside, Len(pattern), s.start,
                                      s.preceding_ch, skip_last_token)
    THEN push_token(s, pattern, s.start, Len(pattern))
    ELSE s

fast_tokenizer_no_regex(pattern, alphabet, sip_first_token, skip_last_token) ==
    LET at_exit == no_regex_loop(pattern, alphabet, sip_first_token,
                                 Len(pattern) + 1, scanner_locals)
    IN  returned(no_regex_end(pattern, skip_last_token, at_exit), at_exit)

(***************************************************************************)
(* fast_tokenizer.                                                          *)
(***************************************************************************)
(* Variant: closing a token leaves inside set. *)
tokenizer_step_stays_inside(pattern, alphabet, i, c, s) ==
    IF is_allowed_code(alphabet, c)
    THEN IF ~s.inside THEN [s EXCEPT !.inside = TRUE, !.start = i] ELSE s
    ELSE IF s.inside
         THEN push_token(s, pattern, s.start, i)
         ELSE s

tokenizer_step(pattern, alphabet, i, c, s) ==
    IF is_allowed_code(alphabet, c)
    THEN IF ~s.inside THEN [s EXCEPT !.inside = TRUE, !.start = i] ELSE s
    ELSE IF s.inside
         THEN push_token([s EXCEPT !.inside = FALSE], pattern, s.start, i)
         ELSE s

tokenizer_turn(pattern, alphabet, s) ==
    IF s.exited \/ s.panicked THEN s
    ELSE IF s.chars >= Len(pattern) THEN [s EXCEPT !.exited = TRUE]
    ELSE IF buffer_is_full(s.tokens_buffer_index) THEN [s EXCEPT !.exited = TRUE]
    ELSE LET i == s.chars
             c == char_at(pattern, i)
         IN  tokenizer_step(pattern, alphabet, i, c,
                            [s EXCEPT !.chars = i + len_utf8(c)])

RECURSIVE tokenizer_loop(_, _, _, _)
tokenizer_loop(pattern, alphabet, turns, s) ==
    IF turns <= 1 THEN tokenizer_turn(pattern, alphabet, s)
    ELSE LET half == tokenizer_loop(pattern, alphabet, turns \div 2, s)
         IN  IF half.exited \/ half.panicked THEN half
             ELSE tokenizer_loop(pattern, alphabet, turns - (turns \div 2), half)

(* Variant: the token open at the end of the input is dropped. *)
tokenizer_end_drops_last(pattern, s) == s

tokenizer_end(pattern, s) ==
    IF ~s.panicked /\ s.inside
    THEN push_token(s, pattern, s.start, Len(pattern))
    ELSE s

fast_tokenizer(pattern, alphabet) ==
    LET at_exit == tokenizer_loop(pattern, alphabet, Len(pattern) + 1, scanner_locals)
    IN  returned(tokenizer_end(pattern, at_exit), at_exit)

(***************************************************************************)
(* The public entry points.                                                 *)
(***************************************************************************)
(* Variant: tokenize as the scan that suppresses nothing. *)
tokenize_unsuppressed(pattern) == fast_tokenizer(pattern, "filter")

tokenize(pattern) == fast_tokenizer_no_regex(pattern, "filter", FALSE, FALSE)

tokenize_filter(pattern, sip_first_token, skip_last_token) ==
    fast_tokenizer_no_regex(pattern, "filter", sip_first_token, skip_last_token)

tokenize_hostnames(pattern) == fast_tokenizer(pattern, "hostname")

(***************************************************************************)
(* Vec::sort_unstable: the ascending arrangement of the elements.  The      *)
(* element at place j is the value v with fewer than j elements below it    *)
(* and at least j elements not above it.                                    *)
(***************************************************************************)
sort_unstable(tokens) ==
    LET values == {tokens[k] : k \in 1..Len(tokens)}
        upto == [v \in values |-> Cardinality({k \in 1..Len(tokens) : tokens[k] <= v})]
        below == [v \in values |-> Cardinality({k \in 1..Len(tokens) : tokens[k] < v})]
    IN  [j \in 1..Len(tokens) |-> CHOOSE v \in values : below[v] < j /\ j <= upto[v]]

(***************************************************************************)
(* Vec::dedup: removes every element equal to the one before it.            *)
(***************************************************************************)
RECURSIVE dedup_range(_, _, _)
dedup_range(tokens, from, to) ==
    IF from > to THEN <<>>
    ELSE IF from = to
         THEN IF from > 1 /\ tokens[from] = tokens[from - 1] THEN <<>>
              ELSE <<tokens[from]>>
    ELSE LET mid == (from + to) \div 2
         IN  dedup_range(tokens, from, mid) \o dedup_range(tokens, mid + 1, to)

dedup(tokens) == dedup_range(tokens, 1, Len(tokens))

(* Variants: without the sort, and without the dedup. *)
compact_tokens_unsorted(tokens) == dedup(tokens)

compact_tokens_repeating(tokens) == sort_unstable(tokens)

compact_tokens(tokens) == dedup(sort_unstable(tokens))

create_fuzzy_signature(pattern) ==
    LET scanned == fast_tokenizer(pattern, "filter")
    IN  [scanned EXCEPT !.tokens = compact_tokens(@)]

(***************************************************************************)
(* The bit-flag helpers.  A Hash (u32) is the vector of its HASH_BITS bits, *)
(* bit b at index b.                                                        *)
(***************************************************************************)
HASH_BITS == 32

Zero == [b \in 0..(HASH_BITS - 1) |-> 0]

get_bit(n, mask) == [b \in 0..(HASH_BITS - 1) |-> n[b] * mask[b]] # Zero

(* Variant: and in place of or. *)
set_bit_and(n, mask) == [b \in 0..(HASH_BITS - 1) |-> n[b] * mask[b]]

set_bit(n, mask) ==
    [b \in 0..(HASH_BITS - 1) |-> IF n[b] = 1 \/ mask[b] = 1 THEN 1 ELSE 0]

clear_bit(n, mask) == [b \in 0..(HASH_BITS - 1) |-> n[b] * (1 - mask[b])]

(***************************************************************************)
(* The inputs.                                                              *)
(***************************************************************************)
Chars == {LetterA, LetterTesh, Star, Dot, Dash}

TailChars == {LetterA, Dot, Star}

RECURSIVE Strings(_, _)
Strings(alphabet, n) ==
    IF n = 0 THEN {<<>>}
    ELSE LET shorter == Strings(alphabet, n - 1)
         IN  shorter \cup {Append(w, c) : w \in {v \in shorter : Len(v) = n - 1},
                                           c \in alphabet}

ShortPatterns == {as_bytes(w) : w \in Strings(Chars, MaxLen)}

(* The words a long pattern repeats, each with the char that closes it. *)
Units == { <<LetterTesh, Dot>>, <<LetterA, LetterA, Dot>>, <<LetterA, Dash>> }

Repeat(unit, k) == [j \in 1..(k * Len(unit)) |-> unit[((j - 1) % Len(unit)) + 1]]

LongPatterns ==
    { Repeat(as_bytes(u), TOKENS_BUFFER_SIZE - 1 + d) \o as_bytes(t) :
        u \in Units, d \in 0..CapSlack, t \in Strings(TailChars, MaxTailLen) }

Patterns == ShortPatterns \cup LongPatterns

(* Words with bits among the low WordBits - 1 positions and the top one. *)
SampleBits == 0..(WordBits - 2) \cup {HASH_BITS - 1}

Words ==
    { [b \in 0..(HASH_BITS - 1) |-> IF b \in on THEN 1 ELSE 0] : on \in SUBSET SampleBits }

(***************************************************************************)
(* The state: the arguments of a call, the call made, and what it returned. *)
(***************************************************************************)
VARIABLES pattern, sip_first_token, skip_last_token, call, ret,
          n, mask, bit_call, bit_word, bit_ret

vars == <<pattern, sip_first_token, skip_last_token, call, ret,
          n, mask, bit_call, bit_word, bit_ret>>

NoReturn ==
    [tokens |-> <<>>, written |-> <<>>, panicked |-> FALSE,
     exit_inside |-> FALSE, exit_index |-> 0]

scan_vars == <<pattern, sip_first_token, skip_last_token, call, ret>>
bit_vars == <<n, mask, bit_call, bit_word, bit_ret>>

Init ==
    /\ pattern \in Patterns
    /\ sip_first_token = FALSE
    /\ skip_last_token = FALSE
    /\ call = "none"
    /\ ret = NoReturn
    /\ n = Zero /\ mask = Zero /\ bit_call = "none" /\ bit_word = Zero /\ bit_ret = FALSE

Tokenize ==
    /\ call = "none"
    /\ call' = "tokenize"
    /\ ret' = tokenize(pattern)
    /\ UNCHANGED <<pattern, sip_first_token, skip_last_token, bit_vars>>

TokenizeFilter ==
    /\ call = "none"
    /\ \E first \in BOOLEAN, last \in BOOLEAN :
          /\ sip_first_token' = first
          /\ skip_last_token' = last
          /\ ret' = tokenize_filter(pattern, first, last)
    /\ call' = "tokenize_filter"
    /\ UNCHANGED <<pattern, bit_vars>>

TokenizeHostnames ==
    /\ call = "none"
    /\ call' = "tokenize_hostnames"
    /\ ret' = tokenize_hostnames(pattern)
    /\ UNCHANGED <<pattern, sip_first_token, skip_last_token, bit_vars>>

CreateFuzzySignature ==
    /\ call = "none"
    /\ call' = "create_fuzzy_signature"
    /\ ret' = create_fuzzy_signature(pattern)
    /\ UNCHANGED <<pattern, sip_first_token, skip_last_token, bit_vars>>

Next == Tokenize \/ TokenizeFilter \/ TokenizeHostnames \/ CreateFuzzySignature

Spec == Init /\ [][Next]_vars

(***************************************************************************)
(* The bit-flag helpers, applied to a word n and a mask.  bit_word is the   *)
(* word the last set_bit or clear_bit returned (n before any), and get_bit  *)
(* tests it against the same mask.                                          *)
(***************************************************************************)
InitBits ==
    /\ n \in Words
    /\ mask \in Words
    /\ bit_call = "none"
    /\ bit_word = n
    /\ bit_ret = FALSE
    /\ pattern = <<>> /\ sip_first_token = FALSE /\ skip_last_token = FALSE
    /\ call = "none" /\ ret = NoReturn

SetBit ==
    /\ bit_call = "none"
    /\ bit_word' = set_bit(n, mask)
    /\ bit_call' = "set_bit"
    /\ UNCHANGED <<n, mask, bit_ret, scan_vars>>

ClearBit ==
    /\ bit_call = "none"
    /\ bit_word' = clear_bit(n, mask)
    /\ bit_call' = "clear_bit"
    /\ UNCHANGED <<n, mask, bit_ret, scan_vars>>

GetBit ==
    /\ bit_call \in {"none", "set_bit", "clear_bit"}
    /\ bit_ret' = get_bit(bit_word, mask)
    /\ bit_call' = IF bit_call = "none" THEN "get_bit" ELSE "get_bit after " \o bit_call
    /\ UNCHANGED <<n, mask, bit_word, scan_vars>>

NextBits == SetBit \/ ClearBit \/ GetBit

SpecBits == InitBits /\ [][NextBits]_vars

(***************************************************************************)
(* What the claims speak of, read off the pattern alone.                    *)
(***************************************************************************)
Min(a, b) == IF a <= b THEN a ELSE b

IsContinuation(byte) == byte \in 128..191

(* The byte offset at which the char covering byte offset j starts. *)
CharStart(p, j) ==
    CHOOSE k \in (IF j < 3 THEN 0 ELSE j - 3)..j :
        /\ ~IsContinuation(p[k + 1])
        /\ \A m \in (k + 1)..j : IsContinuation(p[m + 1])

(* The byte at offset j belongs to a char of the alphabet. *)
Covered(p, alphabet, j) == is_allowed_code(alphabet, char_at(p, CharStart(p, j)))

(* A maximal run of alphabet chars starts at byte offset j. *)
IsRunStart(p, alphabet, j) ==
    Covered(p, alphabet, j) /\ (j = 0 \/ ~Covered(p, alphabet, j - 1))

(* The byte offsets at which the maximal runs of alphabet chars start. *)
RunStarts(p, alphabet) == {j \in 0..(Len(p) - 1) : IsRunStart(p, alphabet, j)}

(* The byte offset at which the maximal run that starts at from ends. *)
RunEnd(p, alphabet, from) ==
    CHOOSE to \in (from + 1)..Len(p) :
        /\ to = Len(p) \/ ~Covered(p, alphabet, to)
        /\ \A j \in from..(to - 1) : Covered(p, alphabet, j)

StarBefore(p, from) == from > 0 /\ p[from] = Star

StarAfter(p, to) == to < Len(p) /\ p[to + 1] = Star

(***************************************************************************)
(* r is the return of a scan that emits, in pattern order and up to the     *)
(* cap, the hashes of exactly the maximal runs that start at the offsets    *)
(* in keep.                                                                 *)
(***************************************************************************)
EmitsRuns(p, alphabet, keep, r) ==
    LET w == r.written
        emitted == {w[j][1] : j \in 1..Len(w)}
    IN  /\ ~r.panicked
        /\ Len(r.tokens) = Len(w)
        /\ Len(w) = Min(Cardinality(keep), TOKENS_BUFFER_SIZE)
        /\ \A j \in 1..Len(w) :
              /\ w[j][1] \in keep
              /\ w[j][2] = RunEnd(p, alphabet, w[j][1])
              /\ r.tokens[j] = fast_hash(slice(p, w[j][1], w[j][2]))
              /\ j > 1 => w[j - 1][1] < w[j][1]
        /\ \A from \in keep :
              \/ from \in emitted
              \/ Len(w) = TOKENS_BUFFER_SIZE /\ from > w[TOKENS_BUFFER_SIZE][1]

(* The runs the suppressing scan is to keep. *)
KeptRuns(p, first, last) ==
    {from \in RunStarts(p, "filter") :
        LET to == RunEnd(p, "filter", from)
        IN  /\ to - from > 1
            /\ ~StarBefore(p, from)
            /\ IF to < Len(p) THEN ~StarAfter(p, to) /\ (~first \/ from # 0)
                              ELSE ~last}

(* The run starts between byte offsets lo and hi, in pattern order. *)
RECURSIVE RunsIn(_, _, _, _)
RunsIn(p, alphabet, lo, hi) ==
    IF lo > hi THEN <<>>
    ELSE IF lo = hi THEN IF IsRunStart(p, alphabet, lo) THEN <<lo>> ELSE <<>>
    ELSE LET mid == (lo + hi) \div 2
         IN  RunsIn(p, alphabet, lo, mid) \o RunsIn(p, alphabet, mid + 1, hi)

(* The words of p: its maximal runs of filter chars, by their start. *)
WordsOf(p) == RunsIn(p, "filter", 0, Len(p) - 1)

(* The pattern made of the words of p taken in the given order. *)
RECURSIVE JoinWords(_, _, _, _)
JoinWords(p, order, lo, hi) ==
    IF lo > hi THEN <<>>
    ELSE IF lo = hi
         THEN (IF lo > 1 THEN <<Dot>> ELSE <<>>)
              \o slice(p, order[lo], RunEnd(p, "filter", order[lo]))
    ELSE LET mid == (lo + hi) \div 2
         IN  JoinWords(p, order, lo, mid) \o JoinWords(p, order, mid + 1, hi)

(* p with its words rotated, its first two words swapped, and reversed. *)
Reorderings(p) ==
    LET words == WordsOf(p)
        count == Len(words)
        rotated == [j \in 1..count |-> words[(j % count) + 1]]
        swapped == [j \in 1..count |->
                       IF j = 1 /\ count > 1 THEN words[2]
                       ELSE IF j = 2 THEN words[1] ELSE words[j]]
        reversed == [j \in 1..count |-> words[count + 1 - j]]
    IN  {JoinWords(p, order, 1, count) : order \in {rotated, swapped, reversed}}

Scanned == call # "none"

Suppressing == call \in {"tokenize", "tokenize_filter"}

(***************************************************************************)
(* C1.  Every call of tokenize, tokenize_filter, tokenize_hostnames and     *)
(* create_fuzzy_signature returns, and returns at most TOKENS_BUFFER_SIZE   *)
(* tokens, also when the pattern ends inside a token after the loop has     *)
(* filled the buffer.                                                       *)
(***************************************************************************)
AtMostBufferSizeTokens ==
    Scanned => ~ret.panicked /\ Len(ret.tokens) <= TOKENS_BUFFER_SIZE

(* A full buffer returned for a pattern that ends inside a token. *)
FullBufferEndingInsideToken ==
    /\ call = "tokenize_filter"
    /\ Len(ret.tokens) = TOKENS_BUFFER_SIZE
    /\ Covered(pattern, "filter", Len(pattern) - 1)
    /\ Cardinality(RunStarts(pattern, "filter")) > TOKENS_BUFFER_SIZE

(***************************************************************************)
(* C2.  No write into the token buffer is out of bounds, in the loop or     *)
(* after it: every write is at an index below TOKENS_BUFFER_SIZE, and a     *)
(* scanner that leaves the loop with the index at TOKENS_BUFFER_SIZE is     *)
(* not inside a token.                                                      *)
(***************************************************************************)
WritesWithinBuffer ==
    Scanned =>
        /\ ~ret.panicked
        /\ Len(ret.written) <= TOKENS_BUFFER_SIZE
        /\ ret.exit_index <= TOKENS_BUFFER_SIZE
        /\ ret.exit_index = TOKENS_BUFFER_SIZE => ~ret.exit_inside

(* The loop left by its break, with input left that belongs to a token. *)
LoopLeftWithFullBuffer ==
    /\ call = "tokenize_hostnames"
    /\ ret.exit_index = TOKENS_BUFFER_SIZE
    /\ ~ret.exit_inside
    /\ Covered(pattern, "hostname", Len(pattern) - 1)

(***************************************************************************)
(* C3.  tokenize and tokenize_filter emit tokens only for maximal runs of   *)
(* filter chars, and never for a run that has a '*' right before it or      *)
(* right after it.                                                          *)
(***************************************************************************)
NoTokenNextToStar ==
    Suppressing =>
        /\ Len(ret.tokens) = Len(ret.written)
        /\ \A j \in 1..Len(ret.written) :
              LET from == ret.written[j][1]
                  to == ret.written[j][2]
              IN  /\ IsRunStart(pattern, "filter", from)
                  /\ to = RunEnd(pattern, "filter", from)
                  /\ ret.tokens[j] = fast_hash(slice(pattern, from, to))
                  /\ ~StarBefore(pattern, from)
                  /\ ~StarAfter(pattern, to)

(* A pattern *A.B* with A and B longer than a byte, and nothing emitted. *)
BothRunsNextToStar ==
    /\ call = "tokenize"
    /\ ret.tokens = <<>>
    /\ pattern # <<>>
    /\ LET runs == RunStarts(pattern, "filter")
       IN  /\ Cardinality(runs) = 2
           /\ \A from \in runs : RunEnd(pattern, "filter", from) - from > 1
           /\ \E from \in runs : StarBefore(pattern, from)
                                 /\ ~StarAfter(pattern, RunEnd(pattern, "filter", from))
           /\ \E from \in runs : StarAfter(pattern, RunEnd(pattern, "filter", from))
                                 /\ ~StarBefore(pattern, from)

(***************************************************************************)
(* C9.  As claimed: tokenize and tokenize_filter never emit a token for a   *)
(* run of one char, whatever the number of bytes of that char.              *)
(***************************************************************************)
NoOneCharToken ==
    Suppressing =>
        \A j \in 1..Len(ret.written) :
            LET from == ret.written[j][1]
                to == ret.written[j][2]
            IN  to - from # len_utf8(char_at(pattern, from))

(***************************************************************************)
(* C9, amended.  tokenize and tokenize_filter never emit a token for a run  *)
(* of one byte; the test is on byte offsets, so a run of one char of        *)
(* several bytes is not dropped for its length.                             *)
(***************************************************************************)
NoOneByteToken ==
    Suppressing =>
        \A j \in 1..Len(ret.written) : ret.written[j][2] - ret.written[j][1] > 1

(* A one-byte run dropped and a run of one two-byte char emitted. *)
OneByteRunDropped ==
    /\ call = "tokenize"
    /\ \E from \in RunStarts(pattern, "filter") :
          /\ RunEnd(pattern, "filter", from) = from + 1
          /\ ~StarBefore(pattern, from)
          /\ ~StarAfter(pattern, from + 1)
    /\ \E j \in 1..Len(ret.written) :
          /\ ret.written[j][2] - ret.written[j][1] = 2
          /\ len_utf8(char_at(pattern, ret.written[j][1])) = 2

(***************************************************************************)
(* C4.  As claimed: tokenize is the scan that suppresses nothing; it        *)
(* returns the hashes of all maximal runs of filter chars, up to the cap.   *)
(***************************************************************************)
TokenizeEmitsEveryRun ==
    call = "tokenize" =>
        EmitsRuns(pattern, "filter", RunStarts(pattern, "filter"), ret)

(***************************************************************************)
(* C4, amended.  tokenize is the suppressing scan with both skip flags      *)
(* off: it returns, in pattern order and up to the cap, the hashes of the   *)
(* maximal runs of filter chars that are longer than one byte and have no   *)
(* '*' right before or right after them.                                    *)
(***************************************************************************)
TokenizeEmitsKeptRuns ==
    call = "tokenize" =>
        EmitsRuns(pattern, "filter", KeptRuns(pattern, FALSE, FALSE), ret)

(* Some run emitted, one dropped for its length, one for a '*'. *)
TokenizeDropsRuns ==
    /\ call = "tokenize"
    /\ Len(ret.tokens) >= 1
    /\ \E from \in RunStarts(pattern, "filter") :
          RunEnd(pattern, "filter", from) = from + 1
    /\ \E from \in RunStarts(pattern, "filter") :
          /\ RunEnd(pattern, "filter", from) > from + 1
          /\ StarBefore(pattern, from)

(***************************************************************************)
(* C8.  tokenize_hostnames returns, in pattern order, the hashes of the     *)
(* first min(n, TOKENS_BUFFER_SIZE) of the n maximal runs of hostname       *)
(* chars: runs of one char, runs next to '*' and the run open at the end    *)
(* of the input included.                                                   *)
(***************************************************************************)
HostnamesEmitsEveryRun ==
    call = "tokenize_hostnames" =>
        EmitsRuns(pattern, "hostname", RunStarts(pattern, "hostname"), ret)

(* More runs than the buffer holds, the last of them open at the end. *)
HostnamesCutAtCap ==
    /\ call = "tokenize_hostnames"
    /\ Len(ret.tokens) = TOKENS_BUFFER_SIZE
    /\ Cardinality(RunStarts(pattern, "hostname")) > TOKENS_BUFFER_SIZE
    /\ Covered(pattern, "hostname", Len(pattern) - 1)

(***************************************************************************)
(* C10.  In tokenize_filter, when the scan reaches the end of the input     *)
(* inside a token, that token is emitted iff it is longer than one byte,    *)
(* has no '*' right before it, and skip_last_token is off.  A run closed    *)
(* by a following char is emitted iff it is longer than one byte, has no    *)
(* '*' on either side, and does not start the pattern while                 *)
(* sip_first_token is on: skip_last_token has no part in it.  A pattern     *)
(* that is a single run of two bytes or more comes back as one token when   *)
(* skip_last_token is off, whatever sip_first_token.                        *)
(***************************************************************************)
LastTokenRule ==
    call = "tokenize_filter" =>
        LET len == Len(pattern)
            w == ret.written
            emitted == {w[j] : j \in 1..Len(w)}
            runs == RunStarts(pattern, "filter")
        IN  /\ \A from \in runs :
                  LET to == RunEnd(pattern, "filter", from)
                  IN  IF to = len
                      THEN ret.exit_inside =>
                              (<<from, to>> \in emitted <=>
                                  /\ to - from > 1
                                  /\ ~StarBefore(pattern, from)
                                  /\ ~skip_last_token)
                      ELSE (Len(w) < TOKENS_BUFFER_SIZE
                              \/ from <= w[TOKENS_BUFFER_SIZE][1]) =>
                              (<<from, to>> \in emitted <=>
                                  /\ to - from > 1
                                  /\ ~StarBefore(pattern, from)
                                  /\ ~StarAfter(pattern, to)
                                  /\ (~sip_first_token \/ from # 0))
            /\ (runs = {0} /\ len >= 2 /\ RunEnd(pattern, "filter", 0) = len
                    /\ ~skip_last_token)
                   => ret.tokens = <<fast_hash(pattern)>>

(* A pattern of one run, returned although sip_first_token is on. *)
SingleTokenKeptDespiteSkipFirst ==
    /\ call = "tokenize_filter"
    /\ sip_first_token
    /\ ~skip_last_token
    /\ Len(pattern) >= 2
    /\ RunStarts(pattern, "filter") = {0}
    /\ RunEnd(pattern, "filter", 0) = Len(pattern)
    /\ ret.tokens = <<fast_hash(pattern)>>

(***************************************************************************)
(* C6.  As claimed: two patterns made of the same words in a different      *)
(* order have the same fuzzy signature, whatever the number of words.       *)
(***************************************************************************)
SignatureIgnoresWordOrder ==
    call = "create_fuzzy_signature" =>
        \A other \in Reorderings(pattern) :
            create_fuzzy_signature(other).tokens = ret.tokens

(***************************************************************************)
(* C6, amended.  Two patterns made of the same words in a different order   *)
(* have the same fuzzy signature when they have at most TOKENS_BUFFER_SIZE  *)
(* words.                                                                   *)
(***************************************************************************)
SignatureIgnoresWordOrderWithinCap ==
    (call = "create_fuzzy_signature"
        /\ Len(WordsOf(pattern)) <= TOKENS_BUFFER_SIZE) =>
        \A other \in Reorderings(pattern) :
            create_fuzzy_signature(other).tokens = ret.tokens

(* As many words as the buffer holds, not all alike, and reordered. *)
ReorderedAtCap ==
    /\ call = "create_fuzzy_signature"
    /\ Len(WordsOf(pattern)) = TOKENS_BUFFER_SIZE
    /\ Len(ret.tokens) >= 2
    /\ \E other \in Reorderings(pattern) :
          /\ other # pattern
          /\ fast_tokenizer(other, "filter").tokens
                # fast_tokenizer(pattern, "filter").tokens

(***************************************************************************)
(* C7.  A fuzzy signature is strictly ascending, and its elements are the   *)
(* tokens the scan that suppresses nothing emits over the filter alphabet:  *)
(* the hashes of the first TOKENS_BUFFER_SIZE maximal runs.                 *)
(***************************************************************************)
SignatureIsAscendingSetOfTokens ==
    call = "create_fuzzy_signature" =>
        LET words == WordsOf(pattern)
            sig == ret.tokens
        IN  /\ ~ret.panicked
            /\ \A j \in 1..(Len(sig) - 1) : sig[j] < sig[j + 1]
            /\ {sig[j] : j \in 1..Len(sig)} =
                   {fast_hash(slice(pattern, words[j],
                                    RunEnd(pattern, "filter", words[j]))) :
                        j \in 1..Min(Len(words), TOKENS_BUFFER_SIZE)}

(* A repeated token removed and two tokens put in order. *)
SignatureSortedAndDeduped ==
    /\ call = "create_fuzzy_signature"
    /\ Len(ret.tokens) >= 2
    /\ Len(ret.tokens) < Len(ret.written)
    /\ \E j \in 1..(Len(ret.written) - 1) :
          fast_hash(slice(pattern, ret.written[j][1], ret.written[j][2]))
              > fast_hash(slice(pattern, ret.written[j + 1][1], ret.written[j + 1][2]))
    /\ \E j \in 1..Len(ret.written) :
          /\ ret.written[j][2] = ret.written[j][1] + 1
          /\ StarBefore(pattern, ret.written[j][1])

(***************************************************************************)
(* C5.  As claimed: get_bit(set_bit(word, mask), mask) is true for every    *)
(* word and every mask, the mask 0 included.                                *)
(***************************************************************************)
SetBitThenGetBit ==
    bit_call = "get_bit after set_bit" => bit_ret = TRUE

(***************************************************************************)
(* C5, amended.  get_bit(set_bit(word, mask), mask) is true for every word  *)
(* and every mask other than 0.                                             *)
(***************************************************************************)
SetBitThenGetBitNonZeroMask ==
    (bit_call = "get_bit after set_bit" /\ mask # Zero) => bit_ret = TRUE

(* A bit set that the word did not have, and found set. *)
NewBitFoundSet ==
    /\ bit_call = "get_bit after set_bit"
    /\ mask # Zero
    /\ \A b \in 0..(HASH_BITS - 1) : n[b] * mask[b] = 0
    /\ bit_ret = TRUE

====
